---- MODULE Spec2Model ----
(***************************************************************************)
(* Board state and turn synchronisation of the battleship client:         *)
(* pages/Game.tsx (first revision in the file), components/game/           *)
(* ShipPlacementBoard.tsx, components/game/CanvasGameBoard.tsx and          *)
(* models/Ship.ts.                                                          *)
(*                                                                          *)
(* One step of the model is one browser task: an event handler together    *)
(* with the React render and the effects that its state updates cause.     *)
(***************************************************************************)
EXTENDS Integers, Sequences, FiniteSets, TLC

\* ------------------------------------------------------------------ bounds
\* Number of network events and attack clicks a behaviour may contain.
MaxEvents == 3
\* Number of drag / rotate operations a setup behaviour may contain.
MaxOps == 2
\* Number of sessions a behaviour may leave and replace by a new one.
MaxServiceOps == 5
MaxSessions == 1
\* Frames an effect stays active: one unit stands for half of `duration`.
AnimTicks == 2
\* Rows and columns, counted from the bottom right, a drag may end on in SpecSetup.
DragSpan == 5

\* ------------------------------------------------------------- program data
Size == 10

\* undefined / null of an optional value; a present value v is <<v>> or a pair.
NULL == <<>>

Rows == 0 .. (Size - 1)
Cells == Rows \X Rows

EMPTY == "empty"
SHIP == "ship"
HIT == "hit"
MISS == "miss"
SUNK == "sunk"
CellState == {EMPTY, SHIP, HIT, MISS, SUNK}

HORIZONTAL == "horizontal"
VERTICAL == "vertical"

ShipIds == {"1", "2", "3", "4", "5"}

\* Array(10).fill(null).map(() => Array(10).fill(CellState.EMPTY))
EmptyBoard == [r \in Rows |-> [c \in Rows |-> EMPTY]]

\* getInitialShips: sizes and orientation of the fleet, no anchor.
getInitialShips ==
    [id \in ShipIds |->
        [size |-> CASE id = "1" -> 5 [] id = "2" -> 4 [] id = "3" -> 3
                    [] id = "4" -> 3 [] OTHER -> 2,
         orientation |-> HORIZONTAL,
         position |-> NULL]]

\* getDefaultShipPlacement(boardSize): the compact pattern at the bottom right.
getDefaultShipPlacement ==
    [id \in ShipIds |->
        [getInitialShips[id] EXCEPT !.position =
            CASE id = "1" -> <<Size - 1, Size - 5>>
              [] id = "2" -> <<Size - 2, Size - 4>>
              [] id = "3" -> <<Size - 3, Size - 3>>
              [] id = "4" -> <<Size - 4, Size - 3>>
              [] OTHER    -> <<Size - 5, Size - 2>>]]

\* The cell the i-th segment of a ship anchored at (row, col) lies on.
SegmentCell(row, col, orientation, i) ==
    IF orientation = HORIZONTAL THEN <<row, col + i>> ELSE <<row + i, col>>

\* ------------------------------------------------------- placement validator
\* The find() callback of isValidPosition: does otherShip occupy (checkRow, checkCol)?
OccupiesCell(otherShip, checkRow, checkCol) ==
    \E j \in 0 .. (otherShip.size - 1) :
        SegmentCell(otherShip.position[1], otherShip.position[2],
                    otherShip.orientation, j) = <<checkRow, checkCol>>

\* Mutant of the overlap scan: ships without an anchor and the ship itself are
\* excluded, and so, by mistake, is every ship of another orientation.
OverlapsOtherMutant(fleet, id, checkRow, checkCol) ==
    \E o \in ShipIds :
        /\ o # id
        /\ fleet[o].position # NULL
        /\ fleet[o].orientation = fleet[id].orientation
        /\ OccupiesCell(fleet[o], checkRow, checkCol)

\* ships.find(otherShip => ...): some other anchored ship occupies the cell.
OverlapsOther(fleet, id, checkRow, checkCol) ==
    \E o \in ShipIds :
        /\ o # id
        /\ fleet[o].position # NULL
        /\ OccupiesCell(fleet[o], checkRow, checkCol)

\* isValidPosition(ship, row, col, orientation) against the component's ships.
isValidPosition(fleet, id, row, col, orientation) ==
    LET size == fleet[id].size IN
    IF orientation = HORIZONTAL /\ col + size > Size THEN FALSE
    ELSE IF orientation = VERTICAL /\ row + size > Size THEN FALSE
    ELSE \A i \in 0 .. (size - 1) :
            LET cell == SegmentCell(row, col, orientation, i) IN
            ~OverlapsOther(fleet, id, cell[1], cell[2])

\* isValidRotation: isValidPosition of the ship with the new orientation.
isValidRotation(fleet, id, row, col, newOrientation) ==
    isValidPosition([fleet EXCEPT ![id].orientation = newOrientation],
                    id, row, col, newOrientation)

Flip(orientation) == IF orientation = HORIZONTAL THEN VERTICAL ELSE HORIZONTAL

\* handleShipsPlaced / updateBoardState: the board drawn from the ships, each
\* segment written only when it lies below the board's upper bound.
BoardFromShips(fleet) ==
    LET written == UNION {
            {SegmentCell(fleet[id].position[1], fleet[id].position[2],
                         fleet[id].orientation, i) : i \in 0 .. (fleet[id].size - 1)}
            : id \in {s \in ShipIds : fleet[s].position # NULL}}
    IN  [r \in Rows |-> [c \in Rows |-> IF <<r, c>> \in written THEN SHIP ELSE EMPTY]]


\* ------------------------------------------------------------ sunk detector
RECURSIVE LookLeft(_, _, _)
\* while (startCol > 0 && newBoard[hitRow][startCol - 1] is HIT or SHIP) startCol--
LookLeft(b, row, startCol) ==
    IF startCol > 0 /\ b[row][startCol - 1] \in {HIT, SHIP}
    THEN LookLeft(b, row, startCol - 1) ELSE startCol

RECURSIVE LookRight(_, _, _)
\* while (endCol < 9 && newBoard[hitRow][endCol + 1] is HIT or SHIP) endCol++
LookRight(b, row, endCol) ==
    IF endCol < Size - 1 /\ b[row][endCol + 1] \in {HIT, SHIP}
    THEN LookRight(b, row, endCol + 1) ELSE endCol

RECURSIVE LookUp(_, _, _)
\* while (startRow > 0 && newBoard[startRow - 1][hitCol] is HIT or SHIP) startRow--
LookUp(b, startRow, col) ==
    IF startRow > 0 /\ b[startRow - 1][col] \in {HIT, SHIP}
    THEN LookUp(b, startRow - 1, col) ELSE startRow

RECURSIVE LookDown(_, _, _)
\* while (endRow < 9 && newBoard[endRow + 1][hitCol] is HIT or SHIP) endRow++
LookDown(b, endRow, col) ==
    IF endRow < Size - 1 /\ b[endRow + 1][col] \in {HIT, SHIP}
    THEN LookDown(b, endRow + 1, col) ELSE endRow

\* Mutant of the detector: the column is scanned before the row.
findAndMarkShipAsSunkMutant(board, hitRow, hitCol) ==
    LET newBoard == [board EXCEPT ![hitRow][hitCol] = SUNK]
        startCol == LookLeft(newBoard, hitRow, hitCol)
        endCol   == LookRight(newBoard, hitRow, hitCol)
        startRow == LookUp(newBoard, hitRow, hitCol)
        endRow   == LookDown(newBoard, hitRow, hitCol)
    IN  IF endRow - startRow > 0
        THEN [r \in Rows |->
                IF r >= startRow /\ r <= endRow
                THEN [newBoard[r] EXCEPT ![hitCol] = SUNK] ELSE newBoard[r]]
        ELSE IF endCol - startCol > 0
        THEN [newBoard EXCEPT ![hitRow] =
                [c \in Rows |-> IF c >= startCol /\ c <= endCol THEN SUNK ELSE @[c]]]
        ELSE newBoard

\* findAndMarkShipAsSunk(board, hitRow, hitCol)
findAndMarkShipAsSunk(board, hitRow, hitCol) ==
    LET newBoard == [board EXCEPT ![hitRow][hitCol] = SUNK]
        startCol == LookLeft(newBoard, hitRow, hitCol)
        endCol   == LookRight(newBoard, hitRow, hitCol)
        startRow == LookUp(newBoard, hitRow, hitCol)
        endRow   == LookDown(newBoard, hitRow, hitCol)
    IN  IF endCol - startCol > 0
        THEN [newBoard EXCEPT ![hitRow] =
                [c \in Rows |-> IF c >= startCol /\ c <= endCol THEN SUNK ELSE @[c]]]
        ELSE IF endRow - startRow > 0
        THEN [r \in Rows |->
                IF r >= startRow /\ r <= endRow
                THEN [newBoard[r] EXCEPT ![hitCol] = SUNK] ELSE newBoard[r]]
        ELSE newBoard

\* ------------------------------------------------------------- move results
Results == {"hit", "miss", "sunk"}

\* Mutant of the board update: a hit on a cell that is already HIT sinks it.
ApplyResultMutant(prevBoard, row, col, result) ==
    IF result = "hit"
    THEN [prevBoard EXCEPT ![row][col] = IF @ = HIT THEN SUNK ELSE HIT]
    ELSE IF result = "sunk" THEN findAndMarkShipAsSunk(prevBoard, row, col)
    ELSE [prevBoard EXCEPT ![row][col] = MISS]

\* Mutant of the board update: the sunk detector also runs for a hit, the named
\* cell being left HIT.
ApplyResultFrameMutant(prevBoard, row, col, result) ==
    IF result = "hit"
    THEN [findAndMarkShipAsSunk(prevBoard, row, col) EXCEPT ![row][col] = HIT]
    ELSE IF result = "sunk" THEN findAndMarkShipAsSunk(prevBoard, row, col)
    ELSE [prevBoard EXCEPT ![row][col] = MISS]

\* Mutant of the board update: a hit reveals the cell as a ship cell.
ApplyResultRevealMutant(prevBoard, row, col, result) ==
    IF result = "hit" THEN [prevBoard EXCEPT ![row][col] = SHIP]
    ELSE IF result = "sunk" THEN findAndMarkShipAsSunk(prevBoard, row, col)
    ELSE [prevBoard EXCEPT ![row][col] = MISS]

\* The updater passed to setPlayerBoard / setOpponentBoard in handleMoveResult.
ApplyResult(prevBoard, row, col, result) ==
    IF result = "hit" THEN [prevBoard EXCEPT ![row][col] = HIT]
    ELSE IF result = "sunk" THEN findAndMarkShipAsSunk(prevBoard, row, col)
    ELSE [prevBoard EXCEPT ![row][col] = MISS]

\* ---------------------------------------------------------------- animations
CellIndex(c) == c[1] * Size + c[2]

RECURSIVE InScanOrder(_)
\* The cells of S in the order of the nested row / col loops.
InScanOrder(S) ==
    IF S = {} THEN <<>>
    ELSE LET first == CHOOSE x \in S : \A y \in S : CellIndex(x) <= CellIndex(y)
         IN  <<first>> \o InScanOrder(S \ {first})

\* Mutant of the board-diff effect: every cell whose state changed to HIT, MISS
\* or SUNK gets an effect, whatever it held before.
NewAnimationsMutant(prevBoardState, externalBoardState) ==
    LET changed == {c \in Cells :
                      /\ prevBoardState[c[1]][c[2]] # externalBoardState[c[1]][c[2]]
                      /\ externalBoardState[c[1]][c[2]] \in {HIT, MISS, SUNK}}
        order == InScanOrder(changed)
    IN  [k \in 1 .. Len(order) |->
            [row |-> order[k][1], col |-> order[k][2],
             type |-> IF externalBoardState[order[k][1]][order[k][2]] \in {HIT, SUNK}
                      THEN "hit" ELSE "miss",
             age |-> 0]]

\* The board-diff effect of CanvasGameBoard: one new effect for every cell that
\* went from EMPTY or SHIP to HIT, MISS or SUNK, appended in scan order.
NewAnimations(prevBoardState, externalBoardState) ==
    LET changed == {c \in Cells :
                      /\ prevBoardState[c[1]][c[2]] \in {EMPTY, SHIP}
                      /\ externalBoardState[c[1]][c[2]] \in {HIT, MISS, SUNK}}
        order == InScanOrder(changed)
    IN  [k \in 1 .. Len(order) |->
            [row |-> order[k][1], col |-> order[k][2],
             type |-> IF externalBoardState[order[k][1]][order[k][2]] \in {HIT, SUNK}
                      THEN "hit" ELSE "miss",
             age |-> 0]]

\* animProgress >= 1
Completed(anim) == anim.age >= AnimTicks

\* activeAnimations.filter(animProgress < 1)
RemainingAnimations(anims) == SelectSeq(anims, LAMBDA a : ~Completed(a))

\* activeAnimations.filter(animProgress >= 1)
CompletedAnimations(anims) == SelectSeq(anims, Completed)

\* One more unit of p5.millis() for every effect.
Older(anims) ==
    [k \in 1 .. Len(anims) |->
        [anims[k] EXCEPT !.age = IF @ < AnimTicks THEN @ + 1 ELSE @]]

\* activeAnimations.some(anim => anim.row === gridY && anim.col === gridX)
hasActiveAnimation(anims, row, col) ==
    \E k \in 1 .. Len(anims) : anims[k].row = row /\ anims[k].col = col


\* ------------------------------------------------------------ socketService
\* Callbacks passed to on / off: two distinct functions with the same source
\* text (the same handler created by two renders) and one with another text.
Callbacks == {[id |-> 1, text |-> "a"], [id |-> 2, text |-> "a"],
              [id |-> 3, text |-> "b"]}

\* A SocketService as constructed: socket = null, connected = false,
\* listeners = {}. Field handlers is what the socket object holds for the
\* event, every entry a wrapper that calls its callback once; field calls is
\* how often the last delivery invoked each callback.
ServiceInit ==
    [socket |-> "null", connected |-> FALSE, listeners |-> <<>>, handlers |-> <<>>,
     calls |-> [cb \in Callbacks |-> 0], op |-> "none", nOp |-> 0]

\* The service while the Game page uses it: connected, the page's handler
\* for the event registered once.
ServiceUp ==
    [ServiceInit EXCEPT !.socket = "open", !.connected = TRUE,
                        !.listeners = <<[id |-> 1, text |-> "a"]>>,
                        !.handlers = <<[id |-> 1, text |-> "a"]>>]

\* -------------------------------------------------------------------- state
VARIABLES
    gameState,          \* GameState: "SETUP", "PLAYING", "GAME_OVER"
    playerReady,        \* Game: playerReady
    playerTurn,         \* Game: playerTurn
    winner,             \* Game: winner, "none" for null
    opponentName,       \* Game: opponentName
    isAnimating,        \* Game: isAnimating
    pendingTurnUpdate,  \* Game: pendingTurnUpdate, NULL or <<boolean>>
    handlerPlayerTurn,  \* playerTurn as captured by the registered socket handlers
    playerBoard,        \* Game: playerBoard
    opponentBoard,      \* Game: opponentBoard
    ships,              \* Game / ShipPlacementBoard: ships
    playerAnims,        \* activeAnimations of the player board's canvas
    opponentAnims,      \* activeAnimations of the opponent board's canvas
    startTimers,        \* delayed second invocations of the game_started callback
    moves,              \* make_move events emitted, in order
    submitted,          \* the ships of the submit_ships events emitted, in order
    socketUp,           \* socketService: socket !== null
    service,            \* socketService: its socket, connected flag and listener
                        \* table for one event, and the handlers on the socket
    staleAnims,         \* activeAnimations as the draw closure of the opponent canvas
                        \* holds it while a re-render is pending, NULL otherwise
    probe,              \* SpecValid: the isValidPosition call and its result
    nEv,                \* events delivered so far (bounded by MaxEvents)
    nOps,               \* drag / rotate operations so far (bounded by MaxOps)
    lastEv,             \* history: the event the last step handled
    repeated,           \* history: that event repeats the event delivered before it
    deferred,           \* history: <<turn>> of the last turn_update that arrived
                        \* while an effect was active, until no effect is active
    ended               \* history: what each session that was left held at its end

vars == <<gameState, playerReady, playerTurn, winner, opponentName, isAnimating,
          pendingTurnUpdate, handlerPlayerTurn, playerBoard, opponentBoard, ships,
          playerAnims, opponentAnims, startTimers, moves, submitted, socketUp,
          service, staleAnims, probe, nEv, nOps, lastEv, repeated, deferred, ended>>

\* What the presentation layer and the network can observe of the program.
progVars == <<gameState, playerReady, playerTurn, winner, opponentName, isAnimating,
              pendingTurnUpdate, handlerPlayerTurn, playerBoard, opponentBoard, ships,
              playerAnims, opponentAnims, startTimers, moves, submitted, socketUp,
              service, staleAnims>>

\* A history record: every field present, unused ones at a default.
NoEv ==
    [type |-> "none", row |-> 0, col |-> 0, result |-> "none", own |-> FALSE,
     keepTurn |-> FALSE, gameOver |-> FALSE, turn |-> FALSE, reason |-> "none",
     id |-> "none", accepted |-> FALSE, cells |-> {}]

WaitingName == "Waiting for opponent..."

\* The state once Game and ShipPlacementBoard are mounted and their mount
\* effects have run (handleShipsPlaced has drawn the default fleet).
Init ==
    /\ gameState = "SETUP"
    /\ playerReady = FALSE
    /\ playerTurn = TRUE
    /\ winner = "none"
    /\ opponentName = WaitingName
    /\ isAnimating = FALSE
    /\ pendingTurnUpdate = NULL
    /\ handlerPlayerTurn = TRUE
    /\ ships = getDefaultShipPlacement
    /\ playerBoard = BoardFromShips(getDefaultShipPlacement)
    /\ opponentBoard = EmptyBoard
    /\ playerAnims = <<>>
    /\ opponentAnims = <<>>
    /\ startTimers = 0
    /\ moves = <<>>
    /\ submitted = <<>>
    /\ probe = NULL
    /\ nEv = 0
    /\ nOps = 0
    /\ lastEv = NoEv
    /\ repeated = FALSE
    /\ deferred = NULL
    /\ socketUp = TRUE
    /\ service = ServiceUp
    /\ staleAnims = NULL
    /\ ended = <<>>

\* Number of active animation effects on the two boards.
NumActive == Len(playerAnims) + Len(opponentAnims)

NetworkEvents == {"move_result", "turn_update", "game_over", "game_started",
                  "opponent_data"}

\* The history variables after a step that handled ev; it is the last conjunct
\* of every action, the animations of the next state being known by then.
Track(ev) ==
    /\ lastEv' = ev
    /\ repeated' = (ev.type \in NetworkEvents \cup {"frame_report"} /\ ev = lastEv)
    /\ deferred' = IF Len(playerAnims') + Len(opponentAnims') = 0 THEN NULL
                   ELSE IF ev.type = "turn_update" /\ NumActive > 0 THEN <<ev.turn>>
                   ELSE deferred

\* ------------------------------------------------------- render and effects
\* After a handler left (pt, anim, pend) in the Game state: the socket effect
\* re-registers its handlers (capturing pt) when isAnimating or opponentName
\* changed, and the pending-turn effect applies a stored turn once
\* isAnimating is false.
Settle(pt, anim, pend, renamed) ==
    /\ isAnimating' = anim
    /\ handlerPlayerTurn' =
          IF anim # isAnimating \/ renamed THEN pt ELSE handlerPlayerTurn
    /\ IF pend # NULL /\ ~anim
       THEN playerTurn' = pend[1] /\ pendingTurnUpdate' = NULL
       ELSE playerTurn' = pt /\ pendingTurnUpdate' = pend

\* The boards are drawn by the two canvases only in the playing phase.
CanvasMounted(state) == state = "PLAYING"

\* Leaving the playing phase unmounts both canvases and mounts
\* ShipPlacementBoard, whose mount effect calls handleShipsPlaced(ships).
\* newState is the phase after the step, board the player board the handler left.
Remount(newState, board) ==
    IF CanvasMounted(gameState) /\ ~CanvasMounted(newState)
    THEN BoardFromShips(ships) ELSE board


\* ------------------------------------------------------------- setup phase
\* Mutant of the placement gate: the ships stay movable after ready.
PlacingMutant == ~CanvasMounted(gameState)

\* ShipPlacementBoard is mounted and its ships can still be moved.
Placing == ~CanvasMounted(gameState) /\ ~playerReady

\* ships.every(ship => ship.position !== undefined)
areAllShipsPlaced(fleet) == \A id \in ShipIds : fleet[id].position # NULL

\* The ships after handleDragEnd(shipId, row, col).
DragResult(fleet, id, row, col) ==
    IF isValidPosition(fleet, id, row, col, fleet[id].orientation)
    THEN [fleet EXCEPT ![id].position = <<row, col>>]
    ELSE fleet

\* Mutant of handleRotate: the orientation flips without the validity check.
RotateResultMutant(fleet, id) ==
    IF fleet[id].position # NULL
    THEN [fleet EXCEPT ![id].orientation = Flip(fleet[id].orientation)]
    ELSE fleet

\* The ships after handleRotate(shipId).
RotateResult(fleet, id) ==
    IF /\ fleet[id].position # NULL
       /\ isValidRotation(fleet, id, fleet[id].position[1], fleet[id].position[2],
                          Flip(fleet[id].orientation))
    THEN [fleet EXCEPT ![id].orientation = Flip(fleet[id].orientation)]
    ELSE fleet

\* DraggableShip.handleMouseMove -> handleDragEnd, then the [ships] effect:
\* onShipsPlaced -> handleShipsPlaced redraws the player board.
DragEnd(id, row, col) ==
    /\ Placing
    /\ ships[id].position # NULL
    /\ nOps < MaxOps
    /\ ships' = DragResult(ships, id, row, col)
    /\ playerBoard' = BoardFromShips(ships')
    /\ nOps' = nOps + 1
    /\ UNCHANGED <<gameState, playerReady, playerTurn, winner, opponentName,
                   isAnimating, pendingTurnUpdate, handlerPlayerTurn, opponentBoard,
                   playerAnims, opponentAnims, startTimers, moves, submitted, probe,
                   nEv>>
    /\ UNCHANGED <<socketUp, service, ended, staleAnims>>
    /\ Track([NoEv EXCEPT !.type = "drag", !.id = id, !.row = row, !.col = col,
                              !.accepted = (ships' # ships)])

\* DraggableShip.handleRotate -> handleRotate, then the [ships] effect.
Rotate(id) ==
    /\ Placing
    /\ nOps < MaxOps
    /\ ships' = RotateResult(ships, id)
    /\ playerBoard' = BoardFromShips(ships')
    /\ nOps' = nOps + 1
    /\ UNCHANGED <<gameState, playerReady, playerTurn, winner, opponentName,
                   isAnimating, pendingTurnUpdate, handlerPlayerTurn, opponentBoard,
                   playerAnims, opponentAnims, startTimers, moves, submitted, probe,
                   nEv>>
    /\ UNCHANGED <<socketUp, service, ended, staleAnims>>
    /\ Track([NoEv EXCEPT !.type = "rotate", !.id = id,
                              !.accepted = (ships' # ships)])

\* Mutant of the ready action: the button stays enabled after the first press.
HandlePlayerReadyMutant ==
    /\ ~CanvasMounted(gameState)
    /\ areAllShipsPlaced(ships)
    /\ playerReady' = TRUE
    /\ submitted' = IF socketUp THEN Append(submitted, ships) ELSE submitted
    /\ UNCHANGED <<gameState, playerTurn, winner, opponentName, isAnimating,
                   pendingTurnUpdate, handlerPlayerTurn, playerBoard, opponentBoard,
                   ships, playerAnims, opponentAnims, startTimers, moves, probe,
                   nEv, nOps>>
    /\ UNCHANGED <<socketUp, service, ended, staleAnims>>
    /\ Track([NoEv EXCEPT !.type = "ready"])

\* The ready button (disabled unless all ships are placed and not yet ready)
\* -> handlePlayerReady -> socketService.submitShips(ships, playerBoard).
HandlePlayerReady ==
    /\ ~CanvasMounted(gameState)
    /\ areAllShipsPlaced(ships)
    /\ ~playerReady
    /\ playerReady' = TRUE
    /\ submitted' = IF socketUp THEN Append(submitted, ships) ELSE submitted
    /\ UNCHANGED <<gameState, playerTurn, winner, opponentName, isAnimating,
                   pendingTurnUpdate, handlerPlayerTurn, playerBoard, opponentBoard,
                   ships, playerAnims, opponentAnims, startTimers, moves, probe,
                   nEv, nOps>>
    /\ UNCHANGED <<socketUp, service, ended, staleAnims>>
    /\ Track([NoEv EXCEPT !.type = "ready"])

\* game_started: the callback sets PLAYING at once and is scheduled to run a
\* second time after 100 ms. The canvases mount with no active animation.
GameStarted ==
    /\ socketUp
    /\ nEv < MaxEvents
    /\ gameState' = "PLAYING"
    /\ startTimers' = startTimers + 1
    /\ nEv' = nEv + 1
    /\ UNCHANGED <<playerReady, playerTurn, winner, opponentName, isAnimating,
                   pendingTurnUpdate, handlerPlayerTurn, playerBoard, opponentBoard,
                   ships, playerAnims, opponentAnims, moves, submitted, probe, nOps>>
    /\ UNCHANGED <<socketUp, service, ended>>
    /\ staleAnims' = NULL
    /\ Track([NoEv EXCEPT !.type = "game_started"])

\* The delayed second invocation of the game_started callback.
GameStartedAgain ==
    /\ startTimers > 0
    /\ gameState' = "PLAYING"
    /\ startTimers' = startTimers - 1
    /\ UNCHANGED <<playerReady, playerTurn, winner, opponentName, isAnimating,
                   pendingTurnUpdate, handlerPlayerTurn, playerBoard, opponentBoard,
                   ships, playerAnims, opponentAnims, moves, submitted, probe,
                   nEv, nOps>>
    /\ UNCHANGED <<socketUp, service, ended>>
    /\ staleAnims' = NULL
    /\ Track([NoEv EXCEPT !.type = "game_started_timer"])


\* ----------------------------------------------------------- playing phase
Reasons == {"none", "hit", "opponent_hit"}

\* playerTurn as handleTurnUpdate leaves it (setPlayerTurn calls).
TurnAfterUpdate(turn, reason) ==
    IF reason \in {"hit", "opponent_hit"}
    THEN IF ~isAnimating /\ reason = "opponent_hit" THEN FALSE ELSE playerTurn
    ELSE IF isAnimating THEN playerTurn ELSE turn

\* Mutant of the slot: a stored turn is not replaced by a later one.
PendingAfterUpdateMutant(turn, reason) ==
    IF pendingTurnUpdate # NULL THEN pendingTurnUpdate
    ELSE IF reason \in {"hit", "opponent_hit"}
    THEN IF isAnimating /\ reason = "opponent_hit" /\ handlerPlayerTurn
         THEN <<FALSE>> ELSE pendingTurnUpdate
    ELSE IF isAnimating THEN <<turn>> ELSE pendingTurnUpdate

\* pendingTurnUpdate as handleTurnUpdate leaves it (setPendingTurnUpdate calls).
PendingAfterUpdate(turn, reason) ==
    IF reason \in {"hit", "opponent_hit"}
    THEN IF isAnimating /\ reason = "opponent_hit" /\ handlerPlayerTurn
         THEN <<FALSE>> ELSE pendingTurnUpdate
    ELSE IF isAnimating THEN <<turn>> ELSE pendingTurnUpdate

\* turn_update -> handleTurnUpdate
TurnUpdate(turn, reason) ==
    /\ socketUp
    /\ nEv < MaxEvents
    /\ Settle(TurnAfterUpdate(turn, reason), isAnimating,
              PendingAfterUpdate(turn, reason), FALSE)
    /\ nEv' = nEv + 1
    /\ UNCHANGED <<gameState, playerReady, winner, opponentName, playerBoard,
                   opponentBoard, ships, playerAnims, opponentAnims, startTimers,
                   moves, submitted, probe, nOps>>
    /\ UNCHANGED <<socketUp, service, ended, staleAnims>>
    /\ Track([NoEv EXCEPT !.type = "turn_update", !.turn = turn,
                              !.reason = reason])

\* Mutant of the extra-turn branch: the grant does not look at the board.
TurnAfterResultOwnMutant(result, own, keepTurn) ==
    IF result \in {"hit", "sunk"} /\ keepTurn THEN TRUE ELSE playerTurn

\* Mutant of the extra-turn branch: the grant is left to a later turn_update.
TurnAfterResultMutant(result, own, keepTurn) == playerTurn

\* playerTurn as handleMoveResult leaves it: setPlayerTurn(true) on a hit or
\* sunk result for the opponent board that carries keepTurn.
TurnAfterResult(result, own, keepTurn) ==
    IF ~own /\ result \in {"hit", "sunk"} /\ keepTurn THEN TRUE ELSE playerTurn

\* The active animations of a canvas after its board went from prev to next
\* while the phase went from gameState to newState.
AnimsAfter(anims, newState, prev, next) ==
    IF CanvasMounted(gameState) /\ CanvasMounted(newState)
    THEN anims \o NewAnimations(prev, next)
    ELSE <<>>

\* newBoard[row][col] = state for a col at or past the end of the row: the
\* assignment raises no error and the row array grows to hold index col.
WriteOutside(prevBoard, row, col, state) ==
    [prevBoard EXCEPT ![row] =
        [c \in (DOMAIN prevBoard[row]) \cup {col} |->
            IF c = col THEN state ELSE prevBoard[row][c]]]

\* move_result -> handleMoveResult for a hit or miss whose row is on the grid
\* and whose col is not: the handler has no range check, the updater writes
\* the cell as for any other, and the board-diff effect, which visits the
\* cells of the grid only, starts no effect.
MoveResultOutside(row, col, result, own) ==
    LET state == IF result = "hit" THEN HIT ELSE MISS
    IN  /\ socketUp
        /\ nEv < MaxEvents
        /\ gameState = "PLAYING"
        /\ col \notin Rows
        /\ playerBoard' = IF own THEN WriteOutside(playerBoard, row, col, state)
                          ELSE playerBoard
        /\ opponentBoard' = IF own THEN opponentBoard
                            ELSE WriteOutside(opponentBoard, row, col, state)
        /\ Settle(TurnAfterResult(result, own, FALSE),
                  IF own THEN isAnimating ELSE TRUE, pendingTurnUpdate, FALSE)
        /\ nEv' = nEv + 1
        /\ UNCHANGED <<gameState, winner, playerReady, opponentName, ships,
                       playerAnims, opponentAnims, startTimers, moves, submitted,
                       probe, nOps>>
        /\ UNCHANGED <<socketUp, service, ended>>
        /\ staleAnims' = NULL
        /\ Track([NoEv EXCEPT !.type = "move_result", !.row = row, !.col = col,
                                  !.result = result, !.own = own])

\* move_result -> handleMoveResult, then the board-diff effect of the canvas.
MoveResult(row, col, result, own, keepTurn, gameOver) ==
    LET newState == IF gameOver THEN "GAME_OVER" ELSE gameState
        newPlayerBoard == IF own THEN ApplyResult(playerBoard, row, col, result)
                          ELSE playerBoard
        newOpponentBoard == IF own THEN opponentBoard
                            ELSE ApplyResult(opponentBoard, row, col, result)
    IN  /\ socketUp
        /\ nEv < MaxEvents
        /\ gameState' = newState
        /\ winner' = IF gameOver THEN (IF own THEN "opponent" ELSE "player")
                     ELSE winner
        /\ playerBoard' = Remount(newState, newPlayerBoard)
        /\ opponentBoard' = newOpponentBoard
        /\ playerAnims' = AnimsAfter(playerAnims, newState, playerBoard, newPlayerBoard)
        /\ opponentAnims' =
              AnimsAfter(opponentAnims, newState, opponentBoard, newOpponentBoard)
        /\ Settle(TurnAfterResult(result, own, keepTurn),
                  IF own THEN isAnimating ELSE TRUE, pendingTurnUpdate, FALSE)
        /\ nEv' = nEv + 1
        /\ UNCHANGED <<playerReady, opponentName, ships, startTimers, moves,
                       submitted, probe, nOps>>
        /\ UNCHANGED <<socketUp, service, ended>>
        /\ staleAnims' = NULL
        /\ Track([NoEv EXCEPT !.type = "move_result", !.row = row, !.col = col,
                                  !.result = result, !.own = own,
                                  !.keepTurn = keepTurn, !.gameOver = gameOver])

\* game_over -> handleGameOver
GameOver(w) ==
    /\ socketUp
    /\ nEv < MaxEvents
    /\ winner' = w
    /\ gameState' = "GAME_OVER"
    /\ playerBoard' = Remount("GAME_OVER", playerBoard)
    /\ playerAnims' = <<>>
    /\ opponentAnims' = <<>>
    /\ nEv' = nEv + 1
    /\ UNCHANGED <<playerReady, playerTurn, opponentName, isAnimating,
                   pendingTurnUpdate, handlerPlayerTurn, opponentBoard, ships,
                   startTimers, moves, submitted, probe, nOps>>
    /\ UNCHANGED <<socketUp, service, ended>>
    /\ staleAnims' = NULL
    /\ Track([NoEv EXCEPT !.type = "game_over"])

\* opponent_data -> handleOpponentData
OpponentData(name) ==
    /\ socketUp
    /\ nEv < MaxEvents
    /\ opponentName' = name
    /\ Settle(playerTurn, isAnimating, pendingTurnUpdate, name # opponentName)
    /\ nEv' = nEv + 1
    /\ UNCHANGED <<gameState, playerReady, winner, playerBoard, opponentBoard,
                   ships, playerAnims, opponentAnims, startTimers, moves, submitted,
                   probe, nOps>>
    /\ UNCHANGED <<socketUp, service, ended, staleAnims>>
    /\ Track([NoEv EXCEPT !.type = "opponent_data"])

\* mousePressed of the opponent canvas: the click reaches onCellClick.
CellClickable(row, col) ==
    /\ playerTurn
    /\ opponentBoard[row][col] = EMPTY
    /\ ~hasActiveAnimation(opponentAnims, row, col)

\* handleAttackOpponent: the attack is not rejected.
AttackApproved(row, col) ==
    /\ gameState = "PLAYING"
    /\ playerTurn
    /\ opponentBoard[row][col] \notin {HIT, MISS, SUNK}

\* Mutant of the click path: the state of the clicked cell is not consulted.
AttackAcceptedMutant(row, col) == gameState = "PLAYING" /\ playerTurn

\* The click path mousePressed -> onCellClick -> handleAttackOpponent ends in
\* socketService.makeMove.
AttackAccepted(row, col) == CellClickable(row, col) /\ AttackApproved(row, col)

\* A click on cell (row, col) of the opponent canvas: mousePressed, then
\* handleAttackOpponent -> setIsAnimating(true), socketService.makeMove.
AttackClick(row, col) ==
    LET accepted == AttackAccepted(row, col)
    IN  /\ CanvasMounted(gameState)
        /\ nEv < MaxEvents
        /\ moves' = IF accepted /\ socketUp THEN Append(moves, <<row, col>>) ELSE moves
        /\ Settle(playerTurn, IF accepted THEN TRUE ELSE isAnimating,
                  pendingTurnUpdate, FALSE)
        /\ nEv' = nEv + 1
        /\ UNCHANGED <<gameState, playerReady, winner, opponentName, playerBoard,
                       opponentBoard, ships, playerAnims, opponentAnims,
                       startTimers, submitted, probe, nOps>>
        /\ UNCHANGED <<socketUp, service, ended, staleAnims>>
        /\ Track([NoEv EXCEPT !.type = "click", !.row = row, !.col = col,
                                  !.accepted = accepted])

\* Time advances by one unit for every active effect.
TimePasses ==
    /\ CanvasMounted(gameState)
    /\ \E k \in 1 .. Len(playerAnims \o opponentAnims) :
          ~Completed((playerAnims \o opponentAnims)[k])
    /\ playerAnims' = Older(playerAnims)
    /\ opponentAnims' = Older(opponentAnims)
    /\ UNCHANGED <<gameState, playerReady, playerTurn, winner, opponentName,
                   isAnimating, pendingTurnUpdate, handlerPlayerTurn, playerBoard,
                   opponentBoard, ships, startTimers, moves, submitted, probe,
                   nEv, nOps>>
    /\ UNCHANGED <<socketUp, service, ended, staleAnims>>
    /\ Track([NoEv EXCEPT !.type = "time"])

\* playerTurn after the handleAnimationComplete calls of one frame.
TurnAfterComplete == IF pendingTurnUpdate # NULL THEN pendingTurnUpdate[1] ELSE playerTurn

\* A frame of the opponent canvas in which some effect has completed:
\* drawAnimations calls onAnimationComplete (handleAnimationComplete) for each
\* and keeps the remaining effects.
FrameTickOpponent ==
    /\ CanvasMounted(gameState)
    /\ Len(CompletedAnimations(opponentAnims)) > 0
    /\ opponentAnims' = RemainingAnimations(opponentAnims)
    /\ Settle(TurnAfterComplete, FALSE, NULL, FALSE)
    /\ UNCHANGED <<gameState, playerReady, winner, opponentName, playerBoard,
                   opponentBoard, ships, playerAnims, startTimers, moves, submitted,
                   probe, nEv, nOps>>
    /\ UNCHANGED <<socketUp, service, ended>>
    /\ staleAnims' = NULL
    /\ Track([NoEv EXCEPT !.type = "frame_opponent"])

\* The cells of the effects of the list that a frame finds completed.
CompletedCells(anims) ==
    {<<anims[k].row, anims[k].col>> : k \in {k \in 1 .. Len(anims) : Completed(anims[k])}}

\* The same frame seen without the re-render that follows it: drawAnimations
\* calls onAnimationComplete for each completed effect and queues
\* setActiveAnimations(remainingAnimations); until React renders the canvas
\* again, draw still holds the list of the last render.
FrameTickOpponentPending ==
    /\ CanvasMounted(gameState)
    /\ staleAnims = NULL
    /\ Len(CompletedAnimations(opponentAnims)) > 0
    /\ opponentAnims' = RemainingAnimations(opponentAnims)
    /\ staleAnims' = <<opponentAnims>>
    /\ Settle(TurnAfterComplete, FALSE, NULL, FALSE)
    /\ UNCHANGED <<gameState, playerReady, winner, opponentName, playerBoard,
                   opponentBoard, ships, playerAnims, startTimers, moves, submitted,
                   probe, nEv, nOps>>
    /\ UNCHANGED <<socketUp, service, ended>>
    /\ Track([NoEv EXCEPT !.type = "frame_report",
                          !.cells = CompletedCells(opponentAnims)])

\* The next frame runs before that re-render: draw reads the list of the last
\* render once more, calls onAnimationComplete for the same completed effects
\* and queues setActiveAnimations with what remains of that list.
FrameTickOpponentStale ==
    /\ CanvasMounted(gameState)
    /\ staleAnims # NULL
    /\ opponentAnims' = RemainingAnimations(staleAnims[1])
    /\ Settle(TurnAfterComplete, FALSE, NULL, FALSE)
    /\ UNCHANGED <<gameState, playerReady, winner, opponentName, playerBoard,
                   opponentBoard, ships, playerAnims, startTimers, moves, submitted,
                   probe, nEv, nOps>>
    /\ UNCHANGED <<socketUp, service, ended, staleAnims>>
    /\ Track([NoEv EXCEPT !.type = "frame_report",
                          !.cells = CompletedCells(staleAnims[1])])

\* React renders the opponent canvas: draw holds the current list again.
Rerender ==
    /\ staleAnims # NULL
    /\ staleAnims' = NULL
    /\ UNCHANGED <<gameState, playerReady, playerTurn, winner, opponentName,
                   isAnimating, pendingTurnUpdate, handlerPlayerTurn, playerBoard,
                   opponentBoard, ships, playerAnims, opponentAnims, startTimers,
                   moves, submitted, probe, nEv, nOps>>
    /\ UNCHANGED <<socketUp, service, ended>>
    /\ Track([NoEv EXCEPT !.type = "render"])

\* A frame of the player canvas in which some effect has completed: the canvas
\* has no onAnimationComplete, the remaining effects are kept.
FrameTickPlayer ==
    /\ CanvasMounted(gameState)
    /\ Len(CompletedAnimations(playerAnims)) > 0
    /\ playerAnims' = RemainingAnimations(playerAnims)
    /\ UNCHANGED <<gameState, playerReady, playerTurn, winner, opponentName,
                   isAnimating, pendingTurnUpdate, handlerPlayerTurn, playerBoard,
                   opponentBoard, ships, opponentAnims, startTimers, moves,
                   submitted, probe, nEv, nOps>>
    /\ UNCHANGED <<socketUp, service, ended, staleAnims>>
    /\ Track([NoEv EXCEPT !.type = "frame_player"])


\* ------------------------------------------------------------------ sessions
\* handleLeaveGame: socketService.leaveGame emits leave_game and disconnects
\* (socket = null, listeners = {}); the navigation follows after 300 ms.
LeaveGame ==
    /\ socketUp
    /\ socketUp' = FALSE
    /\ service' = ServiceInit
    /\ UNCHANGED <<gameState, playerReady, playerTurn, winner, opponentName,
                   isAnimating, pendingTurnUpdate, handlerPlayerTurn, playerBoard,
                   opponentBoard, ships, playerAnims, opponentAnims, startTimers,
                   moves, submitted, staleAnims, probe, nEv, nOps, ended>>
    /\ Track([NoEv EXCEPT !.type = "leave"])

\* What the session that ends held in its last state.
Leftovers ==
    [pending |-> pendingTurnUpdate, animating |-> isAnimating, turn |-> playerTurn,
     effects |-> NumActive, timers |-> startTimers,
     touched |-> playerBoard # BoardFromShips(getDefaultShipPlacement)
                    \/ opponentBoard # EmptyBoard]

\* Mutant of the start of a session: the turn state and the boards of the
\* session that was left are carried over, as a store shared by the sessions
\* would carry them.
StartSessionMutant ==
    /\ ~socketUp
    /\ Len(ended) < MaxSessions
    /\ socketUp' = TRUE
    /\ service' = ServiceUp
    /\ gameState' = "SETUP"
    /\ playerReady' = FALSE
    /\ winner' = "none"
    /\ opponentName' = WaitingName
    /\ ships' = getDefaultShipPlacement
    /\ playerAnims' = <<>>
    /\ opponentAnims' = <<>>
    /\ startTimers' = 0
    /\ staleAnims' = NULL
    /\ ended' = Append(ended, Leftovers)
    /\ UNCHANGED <<playerTurn, isAnimating, pendingTurnUpdate, handlerPlayerTurn,
                   playerBoard, opponentBoard, moves, submitted, probe, nEv, nOps>>
    /\ Track([NoEv EXCEPT !.type = "session"])

\* The delayed navigate('/play') unmounts Game (its state hooks, its canvases
\* and the callbacks of its timers go with it); the next game mounts a new
\* Game on a connected socket: every hook starts from its useState argument
\* and the mount effect of ShipPlacementBoard draws the default fleet.
StartSession ==
    /\ ~socketUp
    /\ Len(ended) < MaxSessions
    /\ socketUp' = TRUE
    /\ service' = ServiceUp
    /\ gameState' = "SETUP"
    /\ playerReady' = FALSE
    /\ playerTurn' = TRUE
    /\ winner' = "none"
    /\ opponentName' = WaitingName
    /\ isAnimating' = FALSE
    /\ pendingTurnUpdate' = NULL
    /\ handlerPlayerTurn' = TRUE
    /\ playerBoard' = BoardFromShips(getDefaultShipPlacement)
    /\ opponentBoard' = EmptyBoard
    /\ ships' = getDefaultShipPlacement
    /\ playerAnims' = <<>>
    /\ opponentAnims' = <<>>
    /\ startTimers' = 0
    /\ staleAnims' = NULL
    /\ ended' = Append(ended, Leftovers)
    /\ UNCHANGED <<moves, submitted, probe, nEv, nOps>>
    /\ Track([NoEv EXCEPT !.type = "session"])


\* ----------------------------------------------------------- specifications
\* Cells that clicks and move results name: the Destroyer of the default
\* fleet, (5,8)-(5,9), and the water above its stern.
Targets == {<<Size - 5, Size - 2>>, <<Size - 5, Size - 1>>, <<Size - 6, Size - 1>>}

Names == {"Ann"}

\* The playing phase: the state after the default fleet was submitted and
\* game_started was handled (both invocations of its callback).
InitPlay ==
    /\ gameState = "PLAYING"
    /\ playerReady = TRUE
    /\ playerTurn = TRUE
    /\ winner = "none"
    /\ opponentName = WaitingName
    /\ isAnimating = FALSE
    /\ pendingTurnUpdate = NULL
    /\ handlerPlayerTurn = TRUE
    /\ ships = getDefaultShipPlacement
    /\ playerBoard = BoardFromShips(getDefaultShipPlacement)
    /\ opponentBoard = EmptyBoard
    /\ playerAnims = <<>>
    /\ opponentAnims = <<>>
    /\ startTimers = 0
    /\ moves = <<>>
    /\ submitted = <<getDefaultShipPlacement>>
    /\ probe = NULL
    /\ nEv = 0
    /\ nOps = 0
    /\ lastEv = [NoEv EXCEPT !.type = "game_started_timer"]
    /\ repeated = FALSE
    /\ deferred = NULL
    /\ socketUp = TRUE
    /\ service = ServiceUp
    /\ staleAnims = NULL
    /\ ended = <<>>

Next ==
    \/ \E c \in Targets, result \in Results, own \in BOOLEAN,
          keepTurn \in BOOLEAN, gameOver \in BOOLEAN :
          MoveResult(c[1], c[2], result, own, keepTurn, gameOver)
    \/ \E turn \in BOOLEAN, reason \in Reasons : TurnUpdate(turn, reason)
    \/ \E c \in Targets : AttackClick(c[1], c[2])
    \/ \E w \in {"player", "opponent"} : GameOver(w)
    \/ \E name \in Names : OpponentData(name)
    \/ GameStarted
    \/ GameStartedAgain
    \/ TimePasses
    \/ FrameTickOpponent
    \/ FrameTickPlayer

Spec == InitPlay /\ [][Next]_vars

\* The frames of both canvases keep being drawn while they are mounted.
SpecFair ==
    /\ Spec
    /\ WF_vars(TimePasses)
    /\ WF_vars(FrameTickOpponent)
    /\ WF_vars(FrameTickPlayer)

\* The setup phase, from the mounted page to the start of the game.
DragWindow == (Size - DragSpan) .. (Size - 1)

NextSetup ==
    \/ \E id \in ShipIds, row \in DragWindow, col \in DragWindow : DragEnd(id, row, col)
    \/ \E id \in ShipIds : Rotate(id)
    \/ HandlePlayerReady
    \/ GameStarted
    \/ GameStartedAgain

SpecSetup == Init /\ [][NextSetup]_vars


\* The placement validator on its own: the call isValidPosition(ship, row, col,
\* orientation) for a fleet, then its result.
ProbeFleets ==
    { getDefaultShipPlacement,
      [getDefaultShipPlacement EXCEPT !["1"].position = <<0, 0>>,
                                      !["1"].orientation = VERTICAL,
                                      !["5"].position = NULL],
      [getInitialShips EXCEPT !["2"].position = <<4, 4>>,
                              !["3"].position = <<2, 5>>,
                              !["3"].orientation = VERTICAL] }

InitValid ==
    /\ gameState = "SETUP"
    /\ playerReady = FALSE
    /\ playerTurn = TRUE
    /\ winner = "none"
    /\ opponentName = WaitingName
    /\ isAnimating = FALSE
    /\ pendingTurnUpdate = NULL
    /\ handlerPlayerTurn = TRUE
    /\ ships \in ProbeFleets
    /\ playerBoard = BoardFromShips(ships)
    /\ opponentBoard = EmptyBoard
    /\ playerAnims = <<>>
    /\ opponentAnims = <<>>
    /\ startTimers = 0
    /\ moves = <<>>
    /\ submitted = <<>>
    /\ probe \in {<<id, row, col, o>> : id \in ShipIds, row \in Rows, col \in Rows,
                                       o \in {HORIZONTAL, VERTICAL}}
    /\ nEv = 0
    /\ nOps = 0
    /\ lastEv = NoEv
    /\ repeated = FALSE
    /\ deferred = NULL
    /\ socketUp = TRUE
    /\ service = ServiceUp
    /\ staleAnims = NULL
    /\ ended = <<>>

\* The call is made and its result recorded after the arguments.
CheckPosition ==
    /\ Len(probe) = 4
    /\ probe' = Append(probe, isValidPosition(ships, probe[1], probe[2], probe[3],
                                              probe[4]))
    /\ UNCHANGED <<gameState, playerReady, playerTurn, winner, opponentName,
                   isAnimating, pendingTurnUpdate, handlerPlayerTurn, playerBoard,
                   opponentBoard, ships, playerAnims, opponentAnims, startTimers,
                   moves, submitted, socketUp, service, staleAnims, nEv, nOps, lastEv,
                   repeated,
                   deferred, ended>>

NextValid == CheckPosition

SpecValid == InitValid /\ [][NextValid]_vars

\* The sunk detector on its own: the call findAndMarkShipAsSunk(board, hitRow,
\* hitCol) for boards that differ in the cells around (5,8), three of its row
\* and three of its column, each in any of the five cell states, and for a
\* named cell inside the grid, at its right edge or above the others.
ScanVaried == {<<5, 6>>, <<5, 7>>, <<5, 9>>, <<3, 8>>, <<4, 8>>, <<6, 8>>}

ScanNamed == {<<5, 8>>, <<5, 9>>, <<4, 8>>}

ScanBoards ==
    {[r \in Rows |-> [c \in Rows |-> IF <<r, c>> \in ScanVaried THEN f[<<r, c>>] ELSE EMPTY]] :
        f \in [ScanVaried -> {EMPTY, SHIP, HIT, MISS, SUNK}]}

InitScan ==
    /\ gameState = "PLAYING"
    /\ playerReady = TRUE
    /\ playerTurn = TRUE
    /\ winner = "none"
    /\ opponentName = WaitingName
    /\ isAnimating = FALSE
    /\ pendingTurnUpdate = NULL
    /\ handlerPlayerTurn = TRUE
    /\ ships = getDefaultShipPlacement
    /\ playerBoard = EmptyBoard
    /\ opponentBoard = EmptyBoard
    /\ playerAnims = <<>>
    /\ opponentAnims = <<>>
    /\ startTimers = 0
    /\ moves = <<>>
    /\ submitted = <<>>
    /\ probe \in {<<b, n[1], n[2]>> : b \in ScanBoards, n \in ScanNamed}
    /\ nEv = 0
    /\ nOps = 0
    /\ lastEv = NoEv
    /\ repeated = FALSE
    /\ deferred = NULL
    /\ socketUp = TRUE
    /\ service = ServiceUp
    /\ staleAnims = NULL
    /\ ended = <<>>

\* The call is made and the board it returns recorded after the arguments.
ScanShip ==
    /\ Len(probe) = 3
    /\ probe' = Append(probe, findAndMarkShipAsSunk(probe[1], probe[2], probe[3]))
    /\ UNCHANGED <<gameState, playerReady, playerTurn, winner, opponentName,
                   isAnimating, pendingTurnUpdate, handlerPlayerTurn, playerBoard,
                   opponentBoard, ships, playerAnims, opponentAnims, startTimers,
                   moves, submitted, socketUp, service, staleAnims, nEv, nOps, lastEv,
                   repeated,
                   deferred, ended>>

NextScan == ScanShip

SpecScan == InitScan /\ [][NextScan]_vars

\* A game that is played, left and followed by the next one: shots that hit
\* or miss without ending the game, turn updates, clicks and frames, then
\* handleLeaveGame, the new session and its setup.
NextSession ==
    \/ \E t \in Targets, result \in {"hit", "miss"}, own \in BOOLEAN :
          MoveResult(t[1], t[2], result, own, FALSE, FALSE)
    \/ \E turn \in BOOLEAN : TurnUpdate(turn, "none")
    \/ \E t \in Targets : AttackClick(t[1], t[2])
    \/ TimePasses
    \/ FrameTickOpponent
    \/ FrameTickPlayer
    \/ LeaveGame
    \/ StartSession
    \/ HandlePlayerReady
    \/ GameStarted
    \/ GameStartedAgain

SpecSession == InitPlay /\ [][NextSession]_vars

\* Shots at the opponent board and the frames of its canvas, a frame and the
\* re-render it asks for being separate steps.
NextFrames ==
    \/ \E t \in Targets, result \in Results :
          MoveResult(t[1], t[2], result, FALSE, FALSE, FALSE)
    \/ \E turn \in BOOLEAN : TurnUpdate(turn, "none")
    \/ \E t \in Targets : AttackClick(t[1], t[2])
    \/ TimePasses
    \/ FrameTickOpponentPending
    \/ FrameTickOpponentStale
    \/ Rerender

SpecFrames == InitPlay /\ [][NextFrames]_vars

\* Move results that name a column past the right edge of the grid, among
\* results that name cells of the grid, and the frames of the canvases.
NextBounds ==
    \/ \E t \in Targets, result \in {"hit", "miss"}, own \in BOOLEAN :
          MoveResultOutside(t[1], Size, result, own)
    \/ \E t \in Targets, result \in {"hit", "miss"}, own \in BOOLEAN :
          MoveResult(t[1], t[2], result, own, FALSE, FALSE)
    \/ TimePasses
    \/ FrameTickOpponent
    \/ FrameTickPlayer

SpecBounds == InitPlay /\ [][NextBounds]_vars

\* ----------------------------------------------------- socketService steps
\* The service before connect() is first called: the page is mounted, no
\* socket exists yet.
InitService ==
    /\ gameState = "SETUP"
    /\ playerReady = FALSE
    /\ playerTurn = TRUE
    /\ winner = "none"
    /\ opponentName = WaitingName
    /\ isAnimating = FALSE
    /\ pendingTurnUpdate = NULL
    /\ handlerPlayerTurn = TRUE
    /\ ships = getDefaultShipPlacement
    /\ playerBoard = BoardFromShips(ships)
    /\ opponentBoard = EmptyBoard
    /\ playerAnims = <<>>
    /\ opponentAnims = <<>>
    /\ startTimers = 0
    /\ moves = <<>>
    /\ submitted = <<>>
    /\ socketUp = FALSE
    /\ service = ServiceInit
    /\ staleAnims = NULL
    /\ probe = NULL
    /\ nEv = 0
    /\ nOps = 0
    /\ lastEv = NoEv
    /\ repeated = FALSE
    /\ deferred = NULL
    /\ ended = <<>>

\* A step of the service: the state of the Game page is not involved.
ServiceStep(next, op) ==
    /\ service' = [next EXCEPT !.op = op, !.nOp = service.nOp + 1]
    /\ socketUp' = (next.socket # "null")
    /\ UNCHANGED <<gameState, playerReady, playerTurn, winner, opponentName,
                   isAnimating, pendingTurnUpdate, handlerPlayerTurn, playerBoard,
                   opponentBoard, ships, playerAnims, opponentAnims, startTimers,
                   moves, submitted, staleAnims, probe, nEv, nOps, lastEv,
                   repeated, deferred, ended>>

\* connect(): nothing if a connected socket exists; otherwise a socket that
\* exists is dropped and io() creates a new one, which holds no handler yet.
Connect ==
    /\ service.nOp < MaxServiceOps
    /\ ServiceStep(IF service.socket # "null" /\ service.connected THEN service
                   ELSE [service EXCEPT !.socket = "opening", !.handlers = <<>>],
                   "connect")

\* The socket's 'connect' notification, after io() or after the transport
\* came back: connected = true and every callback of the listener table is
\* added to the socket.
ConnectNotify ==
    /\ service.nOp < MaxServiceOps
    /\ service.socket \in {"opening", "lost"}
    /\ ServiceStep([service EXCEPT !.socket = "open", !.connected = TRUE,
                                   !.handlers = @ \o service.listeners],
                   "connect_notify")

\* The socket's 'disconnect' notification when the transport is lost: the
\* socket object stays and reconnects by itself.
TransportLost ==
    /\ service.nOp < MaxServiceOps
    /\ service.socket = "open"
    /\ ServiceStep([service EXCEPT !.socket = "lost", !.connected = FALSE],
                   "transport_lost")

\* on(event, callback)
On(callback) ==
    /\ service.nOp < MaxServiceOps
    /\ LET isCallbackRegistered ==
               \E k \in 1 .. Len(service.listeners) :
                   service.listeners[k].text = callback.text
       IN  ServiceStep(
               IF isCallbackRegistered THEN service
               ELSE [service EXCEPT
                       !.listeners = Append(@, callback),
                       !.handlers = IF service.socket # "null"
                                    THEN Append(@, callback) ELSE @],
               "on")

\* off(event, callback)
Off(callback) ==
    /\ service.nOp < MaxServiceOps
    /\ LET remaining == SelectSeq(service.listeners, LAMBDA cb : cb # callback)
       IN  ServiceStep(
               [service EXCEPT
                   !.listeners = remaining,
                   !.handlers = IF service.socket # "null" THEN remaining ELSE @],
               "off")

\* disconnect()
Disconnect ==
    /\ service.nOp < MaxServiceOps
    /\ ServiceStep([service EXCEPT !.socket = "null", !.connected = FALSE,
                                   !.listeners = <<>>, !.handlers = <<>>],
                   "disconnect")

\* The transport delivers the event once: every handler on the socket runs
\* and calls its callback.
Deliver ==
    /\ service.nOp < MaxServiceOps
    /\ service.socket = "open"
    /\ ServiceStep(
          [service EXCEPT !.calls =
              [cb \in Callbacks |->
                  Cardinality({k \in 1 .. Len(service.handlers) :
                                  service.handlers[k] = cb})]],
          "deliver")

NextService ==
    \/ Connect
    \/ ConnectNotify
    \/ TransportLost
    \/ \E cb \in Callbacks : On(cb)
    \/ \E cb \in Callbacks : Off(cb)
    \/ Disconnect
    \/ Deliver

SpecService == InitService /\ [][NextService]_vars

\* The Destroyer of the fleet, the ship of size 2.
Destroyer == "5"

\* A game in which the opponent shoots at the Destroyer: the Destroyer is
\* dragged or rotated during setup, the fleet is submitted, the game starts,
\* and move results for the player board name cells of the Destroyer.
NextSink ==
    \/ \E row \in DragWindow, col \in DragWindow : DragEnd(Destroyer, row, col)
    \/ Rotate(Destroyer)
    \/ HandlePlayerReady
    \/ GameStarted
    \/ GameStartedAgain
    \/ /\ gameState = "PLAYING"
       /\ \E pos \in {ships[Destroyer].position},
             i \in 0 .. (ships[Destroyer].size - 1), result \in {"hit", "sunk"} :
             LET c == SegmentCell(pos[1], pos[2], ships[Destroyer].orientation, i)
             IN  MoveResult(c[1], c[2], result, TRUE, FALSE, FALSE)
    \/ TimePasses
    \/ FrameTickPlayer

SpecSink == Init /\ [][NextSink]_vars


\* ------------------------------------------------------------------- claims
\* The cells a ship of the given size occupies when anchored at (row, col).
OccupiedRun(size, row, col, orientation) ==
    IF orientation = HORIZONTAL
    THEN {<<row, c>> : c \in col .. (col + size - 1)}
    ELSE {<<r, col>> : r \in row .. (row + size - 1)}

\* The occupied cells of a ship of the fleet, none while it has no anchor.
OccupiedCells(fleet, id) ==
    IF fleet[id].position = NULL THEN {}
    ELSE OccupiedRun(fleet[id].size, fleet[id].position[1], fleet[id].position[2],
                     fleet[id].orientation)

\* The placement the spec calls valid: the run lies in the grid and meets no
\* occupied cell of another ship.
ValidPlacement(fleet, id, row, col, orientation) ==
    LET run == OccupiedRun(fleet[id].size, row, col, orientation)
    IN  /\ run \subseteq Cells
        /\ \A o \in ShipIds \ {id} : run \cap OccupiedCells(fleet, o) = {}

\* C6: for every ship, anchor in the grid, orientation and fleet,
\* isValidPosition is false when the occupied run leaves the grid, false when
\* it meets an occupied cell of another anchored ship, and true otherwise.
C6_PlacementValidity ==
    Len(probe) = 5 =>
        probe[5] = ValidPlacement(ships, probe[1], probe[2], probe[3], probe[4])

\* C6 witness: a call rejected only for overlap, next to a ship without anchor.
C6_Witness ==
    /\ Len(probe) = 5
    /\ ~probe[5]
    /\ OccupiedRun(ships[probe[1]].size, probe[2], probe[3], probe[4]) \subseteq Cells
    /\ \E o \in ShipIds \ {probe[1]} : ships[o].position = NULL

\* C7: during setup no two ships' occupied cells intersect and every occupied
\* cell of every anchored ship lies inside the grid.
C7_SetupInvariant ==
    /\ \A a \in ShipIds : OccupiedCells(ships, a) \subseteq Cells
    /\ \A a \in ShipIds : \A b \in ShipIds \ {a} :
          OccupiedCells(ships, a) \cap OccupiedCells(ships, b) = {}

\* C7 witness: after a drag and a rotation were both accepted.
C7_Witness ==
    /\ nOps >= 2
    /\ \E id \in ShipIds : ships[id].orientation = VERTICAL
    /\ \E id \in ShipIds : ships[id].position # getDefaultShipPlacement[id].position

\* C8: a rotate operation changes no other ship and no anchor; the ship's
\* orientation flips exactly when the flipped placement at its anchor is valid,
\* and stays as it was otherwise.
C8_RotationRejection ==
    [][(lastEv'.type = "rotate" /\ nOps' = nOps + 1) =>
          LET id == lastEv'.id
              flipped == Flip(ships[id].orientation)
              ok == /\ ships[id].position # NULL
                    /\ ValidPlacement(ships, id, ships[id].position[1],
                                      ships[id].position[2], flipped)
          IN  /\ \A o \in ShipIds \ {id} : ships'[o] = ships[o]
              /\ ships'[id].position = ships[id].position
              /\ ships'[id].size = ships[id].size
              /\ ships'[id].orientation =
                    IF ok THEN flipped ELSE ships[id].orientation]_vars

\* C8 witness: a rotation was rejected after a ship had been dragged away.
C8_Witness ==
    /\ lastEv.type = "rotate"
    /\ ~lastEv.accepted
    /\ \E id \in ShipIds : ships[id].position # getDefaultShipPlacement[id].position


\* A step that delivered one network event or one click.
Delivered(type) == lastEv'.type = type /\ nEv' = nEv + 1

\* C1: a turn_update that arrives while an effect is active on either board
\* leaves playerTurn as it was until no effect is active, and when none is
\* left playerTurn is the value that turn_update carried.
C1_TurnBuffering ==
    [][/\ (Delivered("turn_update") /\ NumActive > 0) => playerTurn' = playerTurn
       /\ (deferred # NULL /\ NumActive' > 0) => playerTurn' = playerTurn
       /\ (deferred # NULL /\ NumActive' = 0) => playerTurn' = deferred[1]]_vars

\* C2: a turn stored in the pending slot during play is eventually applied
\* and the slot cleared (or play ends), the frames of the canvases being
\* drawn fairly.
C2_PendingApplied ==
    (gameState = "PLAYING" /\ pendingTurnUpdate # NULL)
        ~> (pendingTurnUpdate = NULL \/ gameState # "PLAYING")

BoardOf(own) == IF own THEN playerBoard ELSE opponentBoard

\* The cells of row r reached from (r, c) through cells that are HIT or SHIP.
RowRun(b, r, c) ==
    {<<r, k>> : k \in {k \in Rows :
        \A j \in ((IF k < c THEN k ELSE c) .. (IF k < c THEN c ELSE k)) \ {c} :
            b[r][j] \in {HIT, SHIP}}}

\* The cells of column c reached from (r, c) through cells that are HIT or SHIP.
ColRun(b, r, c) ==
    {<<k, c>> : k \in {k \in Rows :
        \A j \in ((IF k < r THEN k ELSE r) .. (IF k < r THEN r ELSE k)) \ {r} :
            b[j][c] \in {HIT, SHIP}}}

\* The run the sunk verdict marks: the row run if longer than one cell, else
\* the column run.
Extent(b, r, c) ==
    IF Cardinality(RowRun(b, r, c)) > 1 THEN RowRun(b, r, c) ELSE ColRun(b, r, c)

\* The ships of the fleet lying on cell (r, c).
ShipsAt(r, c) == {id \in ShipIds : <<r, c>> \in OccupiedCells(ships, id)}

Forward(old, new) ==
    \/ new = old
    \/ old \in {EMPTY, SHIP} /\ new \in {HIT, SUNK}
    \/ old = HIT /\ new = SUNK
    \/ old = EMPTY /\ new = MISS

\* C5: in the playing phase no step takes a cell of either board backwards.
C5_CellMonotone ==
    [][(gameState = "PLAYING" /\ gameState' = "PLAYING") =>
          \A c \in Cells :
              /\ Forward(playerBoard[c[1]][c[2]], playerBoard'[c[1]][c[2]])
              /\ Forward(opponentBoard[c[1]][c[2]], opponentBoard'[c[1]][c[2]])]_vars

\* C9: a click emits make_move only for a cell that is Empty and has no
\* active effect, in the playing phase on the player's turn, and then emits
\* exactly that cell; any other click changes nothing.
C9_AttackRejection ==
    [][Delivered("click") =>
          LET r == lastEv'.row
              c == lastEv'.col
              ok == /\ gameState = "PLAYING"
                    /\ playerTurn
                    /\ opponentBoard[r][c] = EMPTY
                    /\ ~\E k \in 1 .. Len(opponentAnims) :
                          opponentAnims[k].row = r /\ opponentAnims[k].col = c
          IN  /\ moves' # moves => (ok /\ moves' = Append(moves, <<r, c>>))
              /\ ~ok => UNCHANGED progVars]_vars

\* C9 witness: a click on a resolved cell was dropped on the player's turn.
C9_Witness ==
    /\ lastEv.type = "click"
    /\ ~lastEv.accepted
    /\ gameState = "PLAYING"
    /\ playerTurn
    /\ opponentBoard[lastEv.row][lastEv.col] # EMPTY
    /\ Len(moves) > 0

\* C10: a hit move result for the opponent board that carries keepTurn
\* leaves playerTurn true and the pending slot as it was.
C10_ExtraTurn ==
    [][(/\ Delivered("move_result")
        /\ ~lastEv'.own /\ lastEv'.result = "hit" /\ lastEv'.keepTurn) =>
          /\ playerTurn' = TRUE
          /\ pendingTurnUpdate' = pendingTurnUpdate]_vars

\* C10 witness: the grant arrived while an effect was active and a turn for
\* the opponent was waiting in the pending slot.
C10_Witness ==
    /\ lastEv.type = "move_result"
    /\ ~lastEv.own /\ lastEv.result = "hit" /\ lastEv.keepTurn
    /\ playerTurn
    /\ pendingTurnUpdate = <<FALSE>>
    /\ Len(opponentAnims) >= 2


\* A step that unmounts the canvases (the playing phase is left).
Unmounts == CanvasMounted(gameState) /\ ~CanvasMounted(gameState')

C12_SessionTeardown ==
    [][(lastEv'.type = "session" /\ Len(ended') = Len(ended) + 1) =>
          /\ playerBoard' = BoardFromShips(getDefaultShipPlacement)
          /\ opponentBoard' = EmptyBoard
          /\ ships' = getDefaultShipPlacement
          /\ playerAnims' = <<>> /\ opponentAnims' = <<>>
          /\ isAnimating' = FALSE
          /\ pendingTurnUpdate' = NULL
          /\ playerTurn' = TRUE /\ handlerPlayerTurn' = TRUE
          /\ startTimers' = 0
          /\ gameState' = "SETUP" /\ playerReady' = FALSE]_vars

\* C12 witness: a new session is being played after a session was left with a
\* turn for the opponent in the pending slot, an effect active and shots on
\* the boards.
C12_Witness ==
    /\ Len(ended) = 1
    /\ ended[1].pending = <<FALSE>>
    /\ ended[1].animating
    /\ ended[1].effects > 0
    /\ ended[1].touched
    /\ gameState = "PLAYING"
    /\ playerTurn
    /\ pendingTurnUpdate = NULL


\* The effect the board-diff creates for a shot that hit cell c.
HitEffect(c) == [row |-> c[1], col |-> c[2], type |-> "hit", age |-> 0]

\* The board the submitted fleet was drawn as.
Pristine == BoardFromShips(ships)

\* C13: the two shots that resolve the two cells of the size-2 ship of the
\* submitted fleet, the first reported hit and the second sunk, each create
\* one hit effect, at the shot cell and nowhere else; after the second both
\* cells are Sunk and no other cell of the player board has changed.
C13_SinkDestroyer ==
    [][(/\ Delivered("move_result") /\ lastEv'.own
        /\ gameState = "PLAYING" /\ submitted = <<ships>>
        /\ <<lastEv'.row, lastEv'.col>> \in OccupiedCells(ships, Destroyer)) =>
          LET c == <<lastEv'.row, lastEv'.col>>
              d == CHOOSE x \in OccupiedCells(ships, Destroyer) : x # c
          IN  /\ (lastEv'.result = "hit" /\ playerBoard = Pristine) =>
                    /\ playerAnims' = Append(playerAnims, HitEffect(c))
                    /\ playerBoard' = [Pristine EXCEPT ![c[1]][c[2]] = HIT]
              /\ (/\ lastEv'.result = "sunk"
                  /\ playerBoard = [Pristine EXCEPT ![d[1]][d[2]] = HIT]) =>
                    /\ playerAnims' = Append(playerAnims, HitEffect(c))
                    /\ playerBoard' = [Pristine EXCEPT ![c[1]][c[2]] = SUNK,
                                                       ![d[1]][d[2]] = SUNK]]_vars


\* C14: submit_ships is emitted only by a step taken while every ship of the
\* fleet has an anchor and the player has not declared ready, it carries the
\* fleet and declares the player ready; so each setup phase emits it at most
\* once.
C14_ReadyGating ==
    [][/\ submitted' # submitted =>
             /\ \A id \in ShipIds : ships[id].position # NULL
             /\ ~playerReady /\ playerReady'
             /\ submitted' = Append(submitted, ships)
       /\ Len(submitted') <= Len(ended') + 1]_vars

\* C14 witness: the game went on after a rearranged fleet was submitted once.
C14_Witness ==
    /\ Len(submitted) = 1
    /\ submitted[1] # getDefaultShipPlacement
    /\ playerReady
    /\ gameState = "PLAYING"


\* No two effects of the list are for the same cell.
OnePerCell(anims) ==
    \A i \in 1 .. Len(anims) : \A j \in 1 .. Len(anims) :
        (anims[i].row = anims[j].row /\ anims[i].col = anims[j].col) => i = j

\* C15: the active effects of a board never hold two effects for one cell; a
\* move result that names a cell with an active effect adds none for it.
C15_OneEffectPerCell == OnePerCell(playerAnims) /\ OnePerCell(opponentAnims)

\* C15 witness: a move result was delivered again while the effect of its
\* first delivery was active on the cell.
C15_Witness ==
    /\ lastEv.type = "move_result"
    /\ repeated
    /\ hasActiveAnimation(IF lastEv.own THEN playerAnims ELSE opponentAnims,
                          lastEv.row, lastEv.col)


\* C16: every completion a frame reports is for an effect that is still in
\* the active list, and the report removes it: no effect is reported after
\* it was removed, hence none twice, also when a frame runs before the
\* re-render that follows the removal.
C16_ExactlyOnce ==
    [][lastEv'.type = "frame_report" =>
          \A c \in lastEv'.cells :
              /\ hasActiveAnimation(opponentAnims, c[1], c[2])
              /\ ~hasActiveAnimation(opponentAnims', c[1], c[2])]_vars


\* C17: a turn_update that arrives while no effect is active on either board
\* is applied in that step: afterwards playerTurn is the value it carried and
\* the pending slot is empty. Stated for the updates without a hit reason
\* that arrive during play, the ones handleTurnUpdate treats as normal.
C17_ImmediateApplication ==
    [][(/\ Delivered("turn_update")
        /\ lastEv'.reason = "none"
        /\ gameState = "PLAYING"
        /\ NumActive = 0)
          => (playerTurn' = lastEv'.turn /\ pendingTurnUpdate' = NULL)]_vars


\* The cells of the player board that a step turned to Sunk.
TurnedSunk == {x \in Cells : playerBoard'[x[1]][x[2]] = SUNK /\ playerBoard[x[1]][x[2]] # SUNK}

\* C18: when a sunk move result names a cell of a ship of the submitted
\* fleet whose other cells are all Hit, the cells that turn to Sunk are the
\* cells of that ship, all of them and no cell of another ship, whatever the
\* accepted layout.
C18_ExtentExactness ==
    [][(/\ Delivered("move_result") /\ lastEv'.own /\ lastEv'.result = "sunk"
        /\ gameState = "PLAYING" /\ submitted = <<ships>>) =>
          \A id \in ShipsAt(lastEv'.row, lastEv'.col) :
              (\A x \in OccupiedCells(ships, id) \ {<<lastEv'.row, lastEv'.col>>} :
                    playerBoard[x[1]][x[2]] = HIT)
                 => TurnedSunk = OccupiedCells(ships, id)]_vars


\* C19: a sunk move result turns cells to Sunk only if every cell of the run
\* it detects, the named cell aside, is Hit, and no cell that is ShipPresent
\* or Empty, the named cell aside, turns to Sunk. Stated for the results that
\* name a ship of the submitted fleet whose other cells are all Hit.
C19_FullyHitPrecondition ==
    [][(/\ Delivered("move_result") /\ lastEv'.own /\ lastEv'.result = "sunk"
        /\ gameState = "PLAYING" /\ submitted = <<ships>>
        /\ \E id \in ShipsAt(lastEv'.row, lastEv'.col) :
              \A x \in OccupiedCells(ships, id) \ {<<lastEv'.row, lastEv'.col>>} :
                  playerBoard[x[1]][x[2]] = HIT) =>
          LET named == <<lastEv'.row, lastEv'.col>>
          IN  /\ TurnedSunk # {} =>
                    \A x \in Extent(playerBoard, named[1], named[2]) \ {named} :
                        playerBoard[x[1]][x[2]] = HIT
              /\ \A x \in TurnedSunk \ {named} :
                    playerBoard[x[1]][x[2]] \notin {SHIP, EMPTY}]_vars


\* C20: the board findAndMarkShipAsSunk returns differs from the board it
\* was given only in the cells of the extent, which are Sunk: the maximal run
\* of Hit / ShipPresent cells through the named cell in its row if that run
\* is longer than one cell, else the one in its column if longer than one
\* cell, else the named cell alone.
C20_TwoPhaseScan ==
    (Len(probe) = 4 /\ probe[1] \in ScanBoards) =>
        LET row == RowRun(probe[1], probe[2], probe[3])
            column == ColRun(probe[1], probe[2], probe[3])
            extent == IF Cardinality(row) > 1 THEN row
                      ELSE IF Cardinality(column) > 1 THEN column
                      ELSE {<<probe[2], probe[3]>>}
        IN  \A x \in Cells :
                probe[4][x[1]][x[2]] =
                    IF x \in extent THEN SUNK ELSE probe[1][x[1]][x[2]]

\* C20 witness: a named cell with no neighbour in its row and a column run of
\* three cells through it, one of them still ShipPresent, all Sunk in the
\* result, while a ship cell further along the row is left as it was.
C20_Witness ==
    /\ Len(probe) = 4 /\ probe[1] \in ScanBoards
    /\ Cardinality(RowRun(probe[1], probe[2], probe[3])) = 1
    /\ Cardinality(ColRun(probe[1], probe[2], probe[3])) = 3
    /\ \E x \in ColRun(probe[1], probe[2], probe[3]) : probe[1][x[1]][x[2]] = SHIP
    /\ \A x \in ColRun(probe[1], probe[2], probe[3]) : probe[4][x[1]][x[2]] = SUNK
    /\ \E x \in Cells : x[1] = probe[2] /\ probe[1][x[1]][x[2]] = SHIP
                          /\ probe[4][x[1]][x[2]] = SHIP


\* C21: an attack request is accepted only while no earlier accepted request
\* is still awaiting its result or its animation, so no opponent cell is ever
\* named by two make_move messages.
C21_OwnShotExclusivity ==
    /\ \A i, j \in 1 .. Len(moves) : i # j => moves[i] # moves[j]
    /\ (lastEv.type = "click" /\ lastEv.accepted /\ Len(moves) > 1) =>
          opponentBoard[moves[Len(moves) - 1][1]][moves[Len(moves) - 1][2]] # EMPTY


C23_GatingAgreement ==
    gameState = "PLAYING" => (isAnimating <=> NumActive > 0)


\* C24: a move_result that names a row or column outside the grid leaves
\* both boards as they were, so each board stays ten rows of ten cells, every
\* cell in one of the five cell states.
C24_ShapeKept ==
    /\ \A b \in {playerBoard, opponentBoard} :
          /\ DOMAIN b = Rows
          /\ \A r \in Rows :
                /\ DOMAIN b[r] = Rows
                /\ \A c \in Rows : b[r][c] \in {EMPTY, SHIP, HIT, MISS, SUNK}
    /\ (lastEv.type = "move_result" /\ lastEv.col \notin Rows /\ nEv = 1) =>
          (playerBoard = BoardFromShips(ships) /\ opponentBoard = EmptyBoard)


\* The cells of a board that are ShipPresent.
ShipCells(b) == {x \in Cells : b[x[1]][x[2]] = SHIP}

\* The cells the ships of a fleet occupy.
FleetCells(fleet) == UNION {OccupiedCells(fleet, id) : id \in ShipIds}

C26_IncomingShotKeepsTurn ==
    [][/\ (Delivered("move_result") /\ lastEv'.own) =>
             /\ playerTurn' = playerTurn
             /\ pendingTurnUpdate' = pendingTurnUpdate
       /\ playerTurn' # playerTurn =>
             \/ Delivered("turn_update")
             \/ lastEv'.type = "frame_opponent"
             \/ /\ Delivered("move_result") /\ ~lastEv'.own /\ lastEv'.keepTurn
                /\ lastEv'.result \in {"hit", "sunk"}]_vars

\* C26 witness: an incoming hit that carries keepTurn arrived while it was
\* the opponent's turn, and playerTurn is still false.
C26_Witness ==
    /\ lastEv.type = "move_result" /\ lastEv.own /\ lastEv.keepTurn
    /\ lastEv.result = "hit"
    /\ gameState = "PLAYING"
    /\ ~playerTurn
    /\ Len(playerAnims) = 1


\* C27: in every reachable state every cell of the opponent board is Empty,
\* Hit, Miss or Sunk, never ShipPresent.
C27_OpponentShipsUnknown ==
    \A x \in Cells : opponentBoard[x[1]][x[2]] \in {EMPTY, HIT, MISS, SUNK}

\* C27 witness: the opponent board after a hit, the sunk verdict beside it
\* and a miss.
C27_Witness ==
    /\ gameState = "PLAYING"
    /\ \E x, y, z \in Targets :
          /\ x # y
          /\ opponentBoard[x[1]][x[2]] = SUNK
          /\ opponentBoard[y[1]][y[2]] = SUNK
          /\ opponentBoard[z[1]][z[2]] = MISS


\* C28: a hit move result for a cell of the opponent board that is already
\* Hit, that is, the redelivery of a result that was applied before, leaves
\* playerTurn, the pending slot and the animating flag as they were.
C28_RedeliveryKeepsTurnState ==
    [][(/\ Delivered("move_result") /\ ~lastEv'.own /\ lastEv'.result = "hit"
        /\ gameState = "PLAYING"
        /\ opponentBoard[lastEv'.row][lastEv'.col] = HIT) =>
          /\ playerTurn' = playerTurn
          /\ pendingTurnUpdate' = pendingTurnUpdate
          /\ isAnimating' = isAnimating]_vars


\* C29: whatever the order of connect, the connect notifications, on, off
\* and disconnect, a delivery of the event invokes every callback of the
\* listener table once and no other callback.
C29_OneInvocationPerDelivery ==
    service.op = "deliver" =>
        \A cb \in Callbacks :
            service.calls[cb] =
                IF \E k \in 1 .. Len(service.listeners) : service.listeners[k] = cb
                THEN 1 ELSE 0


\* C30: the phase only moves forward, SETUP to PLAYING to GAME_OVER; once
\* the phase is GAME_OVER it stays GAME_OVER, the winner is set and no
\* make_move is emitted.
C30_PhaseMonotone ==
    [][/\ gameState = "PLAYING" => gameState' # "SETUP"
       /\ gameState = "GAME_OVER" =>
             /\ gameState' = "GAME_OVER"
             /\ winner' # "none"
             /\ moves' = moves]_vars

====
